---- MODULE Spec2Model ----
(***************************************************************************)
(* seer: dump the printable strings of a stopped process's memory.          *)
(* Model of linux::Mem (src/linux/src/lib.rs): dump, load_mapping,          *)
(* read_memory, read_mem_slice.                                             *)
(*                                                                          *)
(* Text is a sequence of one-character strings; Option<T> is a sequence of  *)
(* length 0 (None) or 1 (Some).                                             *)
(***************************************************************************)
EXTENDS Integers, Sequences, FiniteSets, TLC

VARIABLES
    pc,           \* position inside dump()
    build,        \* "debug" (overflow checks on) or "release" (wrapping)
    raw,          \* content of /proc/<pid>/maps
    mapping,      \* self.mapping
    old_mapping,  \* dump's local old_mapping
    idx,          \* 0-based position of read_memory's loop in old_mapping
    calls,        \* invocations of read_mem_slice, in order
    found,        \* the info!("0x{:x}: {}") lines, in order
    log,          \* OS-level operations performed, in order
    buf,          \* the data buffer last scanned
    base          \* start_addr of the buffer last scanned

vars == <<pc, build, raw, mapping, old_mapping, idx, calls, found, log, buf, base>>

-----------------------------------------------------------------------------
(* Bounds of the model *)

\* number of lines of the mapping table in Spec
MaxLines == 2

\* width of usize/u64 in the model (the program's is 64)
AddrBits == 8

\* longest buffer of plain bytes scanned in SpecScan
MaxBuf == 9

\* longest buffer of boundary bytes scanned in SpecScan
MaxEdgeBuf == 5

\* longest permission string drawn in SpecParse
MaxPermLen == 5

-----------------------------------------------------------------------------
(* Option and text helpers *)

None == <<>>

Some(x) == <<x>>

NL == "\n"

SP == " "

\* usize::MAX + 1
AddrModulus == 2 ^ AddrBits

\* isize::MAX, the largest capacity Box::new_uninit_slice accepts
IsizeMax == (AddrModulus \div 2) - 1

\* value of a digit in radix 16 (char::to_digit), None when not a hex digit
DigitVal(c) ==
    CASE c = "0" -> Some(0)  [] c = "1" -> Some(1)  [] c = "2" -> Some(2)
      [] c = "3" -> Some(3)  [] c = "4" -> Some(4)  [] c = "5" -> Some(5)
      [] c = "6" -> Some(6)  [] c = "7" -> Some(7)  [] c = "8" -> Some(8)
      [] c = "9" -> Some(9)
      [] c \in {"a", "A"} -> Some(10)  [] c \in {"b", "B"} -> Some(11)
      [] c \in {"c", "C"} -> Some(12)  [] c \in {"d", "D"} -> Some(13)
      [] c \in {"e", "E"} -> Some(14)  [] c \in {"f", "F"} -> Some(15)
      [] OTHER -> None

RECURSIVE HexAccum(_, _, _)
\* the digit loop of from_str_radix: None on an invalid digit or on overflow
HexAccum(digits, i, acc) ==
    IF i > Len(digits) THEN Some(acc)
    ELSE LET d == DigitVal(digits[i])
         IN IF d = None THEN None
            ELSE LET v == acc * 16 + d[1]
                 IN IF v >= AddrModulus THEN None
                    ELSE HexAccum(digits, i + 1, v)

\* usize::from_str_radix(src, 16): Some(value) or None (Err)
from_str_radix(src) ==
    IF Len(src) = 0 THEN None
    ELSE IF Len(src) = 1 /\ src[1] \in {"+", "-"} THEN None
    ELSE IF src[1] = "+" THEN HexAccum(Tail(src), 1, 0)
    ELSE HexAccum(src, 1, 0)

RECURSIVE FindChar(_, _, _)
\* 1-based position of the first c in s at or after i, 0 when there is none
FindChar(s, c, i) ==
    IF i > Len(s) THEN 0
    ELSE IF s[i] = c THEN i
    ELSE FindChar(s, c, i + 1)

\* str::split_once("-")
split_once(s) ==
    LET k == FindChar(s, "-", 1)
    IN IF k = 0 THEN None
       ELSE Some(<<SubSeq(s, 1, k - 1), SubSeq(s, k + 1, Len(s))>>)

\* str::get with the end of the range required to lie inside the text
StrGetInside(s, a, b) ==
    IF a <= b /\ b < Len(s) THEN Some(SubSeq(s, a + 1, b)) ELSE None

\* str::get(a..b) on ASCII text
StrGet(s, a, b) ==
    IF a <= b /\ b <= Len(s) THEN Some(SubSeq(s, a + 1, b)) ELSE None

\* slice::get(i), 0-based
LineGet(line, i) ==
    IF i < Len(line) THEN Some(line[i + 1]) ELSE None

RECURSIVE SplitOn(_, _, _, _, _)
\* pieces of s between separators; keepEmpty tells whether empty pieces stay
SplitOn(s, seps, i, cur, keepEmpty) ==
    IF i > Len(s)
    THEN IF Len(cur) > 0 THEN <<cur>> ELSE <<>>
    ELSE IF s[i] \in seps
         THEN (IF Len(cur) > 0 \/ keepEmpty THEN <<cur>> ELSE <<>>)
              \o SplitOn(s, seps, i + 1, <<>>, keepEmpty)
         ELSE SplitOn(s, seps, i + 1, Append(cur, s[i]), keepEmpty)

\* str::lines(): split at "\n", no final empty line
lines(text) == SplitOn(text, {NL}, 1, <<>>, TRUE)

\* str::split_whitespace()
split_whitespace(line) == SplitOn(line, {SP, "\t"}, 1, <<>>, FALSE)

-----------------------------------------------------------------------------
(* load_mapping *)

NoMap ==
    [start |-> 0, end |-> 0, r |-> FALSE, w |-> FALSE, x |-> FALSE,
     p |-> FALSE, s |-> FALSE, offset |-> 0, device |-> <<>>, inode |-> <<>>,
     pathname |-> None]

Panic(m) == [ok |-> FALSE, msg |-> m, map |-> NoMap]

\* the five permission flags of struct Maps, from the perms field
PermFlags(perms) ==
    [r |-> StrGet(perms, 0, 1) = Some(<<"r">>),
     w |-> StrGet(perms, 1, 2) = Some(<<"w">>),
     x |-> StrGet(perms, 2, 3) = Some(<<"x">>),
     p |-> StrGet(perms, 3, 4) = Some(<<"p">>),
     s |-> StrGet(perms, 3, 5) = Some(<<"s">>)]

\* a missing field read as the empty string (unwrap_or_default)
RequiredOrDefault(line, i) ==
    IF i < Len(line) THEN Some(line[i + 1]) ELSE Some(<<>>)

\* `line.get(i).map(|s| s.to_string())` of a field that is then unwrapped:
\* None makes the unwrap panic
Required(line, i) == LineGet(line, i)

\* one iteration of `for line in lines`: the Maps pushed, or the panic
ParseLine(line) ==
    IF Required(line, 0) = None THEN Panic("unwrap addr_block")
    ELSE LET se == split_once(Required(line, 0)[1])
    IN IF se = None THEN Panic("Failed to read address block")
    ELSE IF Required(line, 1) = None THEN Panic("unwrap perms")
    ELSE IF Required(line, 2) = None THEN Panic("unwrap offset")
    ELSE LET start  == from_str_radix(se[1][1])
             end    == from_str_radix(se[1][2])
             flags  == PermFlags(Required(line, 1)[1])
             offset == from_str_radix(Required(line, 2)[1])
    IN IF start = None THEN Panic("failed to parse start addr.")
    ELSE IF end = None THEN Panic("failed to parse end addr.")
    ELSE IF offset = None THEN Panic("failed to parse offset.")
    ELSE IF Required(line, 3) = None THEN Panic("unwrap device")
    ELSE IF Required(line, 4) = None THEN Panic("unwrap inode")
    ELSE [ok  |-> TRUE,
          msg |-> "",
          map |-> [start |-> start[1], end |-> end[1],
                   r |-> flags.r, w |-> flags.w, x |-> flags.x,
                   p |-> flags.p, s |-> flags.s,
                   offset |-> offset[1],
                   device |-> Required(line, 3)[1],
                   inode |-> Required(line, 4)[1],
                   pathname |-> LineGet(line, 5)]]

RECURSIVE ParseLines(_, _, _)
\* the loop of load_mapping over the split lines
ParseLines(ls, i, acc) ==
    IF i > Len(ls) THEN [ok |-> TRUE, msg |-> "", maps |-> acc]
    ELSE LET one == ParseLine(ls[i])
         IN IF one.ok THEN ParseLines(ls, i + 1, Append(acc, one.map))
            ELSE [ok |-> FALSE, msg |-> one.msg, maps |-> <<>>]

\* the lines of the table, each split at whitespace
SplitTable(text) ==
    LET ls == lines(text) IN [i \in 1..Len(ls) |-> split_whitespace(ls[i])]

\* load_mapping once read_to_string returned text
ParseTable(text) == ParseLines(SplitTable(text), 1, <<>>)

-----------------------------------------------------------------------------
(* read_memory and read_mem_slice *)

\* shortest run of printable bytes that is logged
MinStringLen == 4

\* the prefix of the pathnames read_memory leaves out
ExcludedPrefix == <<"/", "u", "s", "r">>

\* str::starts_with
starts_with(s, prefix) ==
    Len(s) >= Len(prefix) /\ SubSeq(s, 1, Len(prefix)) = prefix

\* `if !map.r { continue; }`
NotReadable(map) == ~map.r

\* the pathname compared for equality instead of by prefix
ExcludedExact(map) ==
    map.pathname # None /\ map.pathname[1] = ExcludedPrefix

\* `if let Some(file) = &map.pathname { if file.starts_with("/usr") ..`
Excluded(map) ==
    map.pathname # None /\ starts_with(map.pathname[1], ExcludedPrefix)

\* the condition with the space left out (> 32)
IsPrintableNoSpace(b) == b < 128 /\ b > 32 /\ b <= 126

\* the inner while's condition on one byte
IsPrintable(b) == b < 128 /\ b >= 32 /\ b <= 126

RECURSIVE RunLen(_, _)
\* string_len after the inner while started at 0-based offset i
RunLen(data, i) ==
    IF i < Len(data) /\ IsPrintable(data[i + 1])
    THEN 1 + RunLen(data, i + 1)
    ELSE 0

\* String::from_utf8_lossy on single bytes: a non-ASCII byte decodes to U+FFFD
from_utf8_lossy(bytes) ==
    [k \in 1..Len(bytes) |-> IF bytes[k] < 128 THEN bytes[k] ELSE 65533]

\* `if string_len >= 4 { info!(..) }`
Report(data, start_addr, string_start, string_len) ==
    IF string_len >= MinStringLen
    THEN <<[addr |-> start_addr + string_start,
            text |-> from_utf8_lossy(
                        SubSeq(data, string_start + 1, string_start + string_len))]>>
    ELSE <<>>

RECURSIVE ScanFrom(_, _, _)
\* the outer while of read_memory from 0-based offset i: the lines logged
ScanFrom(data, start_addr, i) ==
    IF i >= Len(data) THEN <<>>
    ELSE LET string_len == RunLen(data, i)
             next == IF string_len = 0 THEN i + 1 ELSE i + string_len
         IN Report(data, start_addr, i, string_len)
            \o ScanFrom(data, start_addr, next)

\* the body of `if let Ok(data) = ..`
ExtractStrings(data, start_addr) == ScanFrom(data, start_addr, 0)

\* `map.end - map.start` in a release build (wrapping)
WrappingSub(a, b) == (a - b) % AddrModulus

\* what read_mem_slice's three fallible calls can return for a region:
\* open -> seek -> read_exact; read_exact of an empty buffer makes no call
\* and cannot fail
Outcomes(num_elems) ==
    {"open_err", "seek_err", "ok"}
    \cup (IF num_elems = 0 THEN {} ELSE {"read_err"})

\* the OS calls read_mem_slice made for an outcome
SliceLog(outcome, num_elems) ==
    CASE outcome = "open_err" -> <<"mem_open">>
      [] outcome = "seek_err" -> <<"mem_open", "mem_seek">>
      [] OTHER -> IF num_elems = 0 THEN <<"mem_open", "mem_seek">>
                  ELSE <<"mem_open", "mem_seek", "mem_read">>

\* what the scan logs for the result of read_mem_slice
ScanResult(outcome, data, start_addr) ==
    IF outcome = "ok" THEN ExtractStrings(data, start_addr) ELSE <<>>

\* a failed read propagated out of the loop (read_mem_slice(..)? )
AfterReadAbort(outcome) == IF outcome = "ok" THEN "scan" ELSE "detach"

\* where read_memory goes after read_mem_slice returned: the Err of
\* `if let Ok(data)` falls through to the next iteration
AfterRead(outcome) == "scan"

\* bytes the target's memory holds in Spec
MemBytes == {0, 65}

Tag(strs, k) ==
    [j \in 1..Len(strs) |->
        [region |-> k, addr |-> strs[j].addr, text |-> strs[j].text]]

-----------------------------------------------------------------------------
(* dump *)

Statuses ==
    {"Stopped", "Exited", "Signaled", "PtraceEvent", "Continued", "Err"}

\* the catch-all arm going on to ptrace::detach
AfterWaitDetach(st) ==
    IF st = "Stopped" THEN "load" ELSE IF st = "Err" THEN "done" ELSE "detach"

\* every Ok(status) taken for a stop
AfterWaitAny(st) == IF st # "Err" THEN "load" ELSE "done"

\* the arm of `match wait::waitpid(..)` taken
AfterWait(st) == IF st = "Stopped" THEN "load" ELSE "done"

\* ptrace::attach(self.pid).expect(..)
Attach ==
    /\ pc = "start"
    /\ log' = Append(log, "attach")
    /\ \E ok \in BOOLEAN : pc' = IF ok THEN "wait" ELSE "panicked"
    /\ UNCHANGED <<build, raw, mapping, old_mapping, idx, calls, found, buf, base>>

\* match wait::waitpid(self.pid, None)
WaitPid ==
    /\ pc = "wait"
    /\ \E st \in Statuses :
          /\ log' = Append(log, "waitpid:" \o st)
          /\ pc' = AfterWait(st)
    /\ UNCHANGED <<build, raw, mapping, old_mapping, idx, calls, found, buf, base>>

\* self.load_mapping(); let old_mapping = std::mem::take(&mut self.mapping);
LoadMapping ==
    /\ pc = "load"
    /\ log' = Append(log, "maps_read")
    /\ \E readOk \in BOOLEAN :
          IF readOk /\ ParseTable(raw).ok
          THEN /\ old_mapping' = ParseTable(raw).maps
               /\ mapping' = <<>>
               /\ idx' = 0
               /\ pc' = "scan"
          ELSE /\ pc' = "panicked"
               /\ UNCHANGED <<mapping, old_mapping, idx>>
    /\ UNCHANGED <<build, raw, calls, found, buf, base>>

\* an iteration of `for map in mapping.iter()` that ends in `continue`
SkipRegion ==
    /\ pc = "scan"
    /\ idx < Len(old_mapping)
    /\ LET map == old_mapping[idx + 1]
       IN NotReadable(map) \/ Excluded(map)
    /\ idx' = idx + 1
    /\ UNCHANGED <<pc, build, raw, mapping, old_mapping, calls, found, log, buf, base>>

\* `map.end - map.start` overflowing with overflow checks on
SubOverflow ==
    /\ pc = "scan"
    /\ idx < Len(old_mapping)
    /\ LET map == old_mapping[idx + 1]
       IN /\ ~NotReadable(map)
          /\ ~Excluded(map)
          /\ map.end < map.start
    /\ build = "debug"
    /\ pc' = "panicked"
    /\ UNCHANGED <<build, raw, mapping, old_mapping, idx, calls, found, log, buf, base>>

\* an iteration that calls read_mem_slice and scans what it returned
ReadRegion ==
    /\ pc = "scan"
    /\ idx < Len(old_mapping)
    /\ LET map == old_mapping[idx + 1]
           num_elems == WrappingSub(map.end, map.start)
           start_addr == map.start
       IN /\ ~NotReadable(map)
          /\ ~Excluded(map)
          /\ map.end >= map.start \/ build = "release"
          /\ IF num_elems > IsizeMax
             THEN \* Box::new_uninit_slice: capacity overflow
                  /\ calls' = Append(calls, [region |-> idx + 1,
                                             start_addr |-> start_addr,
                                             num_elems |-> num_elems,
                                             result |-> "alloc_panic",
                                             data |-> <<>>])
                  /\ pc' = "panicked"
                  /\ UNCHANGED <<idx, found, log, buf, base>>
             ELSE \E outcome \in Outcomes(num_elems) :
                  \E data \in IF outcome = "ok" THEN [1..num_elems -> MemBytes]
                              ELSE {<<>>} :
                      /\ calls' = Append(calls, [region |-> idx + 1,
                                                 start_addr |-> start_addr,
                                                 num_elems |-> num_elems,
                                                 result |-> outcome,
                                                 data |-> data])
                      /\ log' = log \o SliceLog(outcome, num_elems)
                      /\ found' = found \o
                                  Tag(ScanResult(outcome, data, start_addr), idx + 1)
                      /\ buf' = data
                      /\ base' = start_addr
                      /\ pc' = AfterRead(outcome)
                      /\ idx' = IF AfterRead(outcome) = "scan" THEN idx + 1 ELSE idx
    /\ UNCHANGED <<build, raw, mapping, old_mapping>>

\* read_memory returns; self.mapping = old_mapping
EndScan ==
    /\ pc = "scan"
    /\ idx = Len(old_mapping)
    /\ mapping' = old_mapping
    /\ pc' = "detach"
    /\ UNCHANGED <<build, raw, old_mapping, idx, calls, found, log, buf, base>>

\* ptrace::detach(self.pid, None).expect(..)
Detach ==
    /\ pc = "detach"
    /\ log' = Append(log, "detach")
    /\ \E ok \in BOOLEAN : pc' = IF ok THEN "done" ELSE "panicked"
    /\ UNCHANGED <<build, raw, mapping, old_mapping, idx, calls, found, buf, base>>

-----------------------------------------------------------------------------
(* Inputs *)

RECURSIVE Join(_, _)
\* the pieces with sep between them
Join(pieces, sep) ==
    IF Len(pieces) = 0 THEN <<>>
    ELSE IF Len(pieces) = 1 THEN pieces[1]
    ELSE pieces[1] \o <<sep>> \o Join(Tail(pieces), sep)

Zero == <<"0">>

Dev == <<"0", "0", ":", "0", "0">>

UsrLib == <<"/", "u", "s", "r", "/", "l">>

BinX == <<"/", "b", "i", "n">>

Heap == <<"[", "h", "e", "a", "p", "]">>

RWXP == <<"r", "w", "x", "p">>

R__P == <<"r", "-", "-", "p">>

R__S == <<"r", "-", "-", "s">>

_W_P == <<"-", "w", "-", "p">>

\* lines of a mapping table drawn in Spec
LineSamples ==
    { <<<<"1", "-", "5">>, R__P, Zero, Dev, Zero>>,
      <<<<"2", "-", "6">>, RWXP, Zero, Dev, Zero, BinX>>,
      <<<<"1", "-", "5">>, R__P, Zero, Dev, Zero, UsrLib>>,
      <<<<"3", "-", "7">>, _W_P, Zero, Dev, Zero, Heap>>,
      <<<<"5", "-", "1">>, R__P, Zero, Dev, Zero>>,
      <<<<"f", "f", "-", "1">>, R__P, Zero, Dev, Zero>>,
      <<<<"3", "-", "3">>, R__P, Zero, Dev, Zero>>,
      <<<<"1", "5">>, R__P, Zero, Dev, Zero>>,
      <<<<"1", "-", "5">>, R__S, Zero, Dev>> }

\* tables of at most n lines
Tables(n) == UNION {[1..k -> LineSamples] : k \in 0..n}

\* the text of a table
TableText(tb) ==
    Join([i \in 1..Len(tb) |-> Join(tb[i], SP)], NL)
    \o (IF Len(tb) > 0 THEN <<NL>> ELSE <<>>)

Init ==
    /\ pc = "start"
    /\ build \in {"debug", "release"}
    /\ raw \in {TableText(tb) : tb \in Tables(MaxLines)}
    /\ mapping = <<>>
    /\ old_mapping = <<>>
    /\ idx = 0
    /\ calls = <<>>
    /\ found = <<>>
    /\ log = <<>>
    /\ buf = <<>>
    /\ base = 0

Next ==
    \/ Attach
    \/ WaitPid
    \/ LoadMapping
    \/ SkipRegion
    \/ SubOverflow
    \/ ReadRegion
    \/ EndScan
    \/ Detach

Spec == Init /\ [][Next]_vars

-----------------------------------------------------------------------------
(* load_mapping on its own: one line of the table *)

PermChars == {"r", "w", "x", "p", "s", "-"}

\* every permission field of at most n characters
AllPerms(n) == UNION {[1..k -> PermChars] : k \in 1..n}

AddrSamples ==
    { <<"1", "-", "5">>, <<"1", "5">>, <<"1", "-">>, <<"-", "5">>, <<"-">>,
      <<"g", "-", "5">>, <<"1", "-", "5", "g">>, <<"+", "1", "-", "5">>,
      <<"1", "-", "2", "-", "3">>, <<"1", "0", "0", "-", "1">>,
      <<"5", "-", "1">>, <<"A", "-", "f", "f">> }

OffsetSamples == {Zero, <<"1", "0">>, <<"z">>}

\* the first n fields of a line
FirstFields(line, n) == SubSeq(line, 1, n)

ParseInputs ==
    { <<<<"1", "-", "5">>, perms, Zero, Dev, Zero>> : perms \in AllPerms(MaxPermLen) }
    \cup
    { FirstFields(<<addr, perms, off, Dev, Zero, Heap>>, n) :
         addr \in AddrSamples, perms \in {RWXP, R__S, <<"r">>},
         off \in OffsetSamples, n \in 0..6 }

InitParse ==
    /\ pc = "parse"
    /\ build = "debug"
    /\ raw \in {Join(line, SP) \o <<NL>> : line \in ParseInputs}
    /\ mapping = <<>>
    /\ old_mapping = <<>>
    /\ idx = 0
    /\ calls = <<>>
    /\ found = <<>>
    /\ log = <<>>
    /\ buf = <<>>
    /\ base = 0

\* load_mapping from the text on: `self.mapping = mapping`, or a panic
ParseStep ==
    /\ pc = "parse"
    /\ IF ParseTable(raw).ok
       THEN /\ mapping' = ParseTable(raw).maps
            /\ pc' = "parsed"
       ELSE /\ pc' = "parse_panicked"
            /\ UNCHANGED mapping
    /\ UNCHANGED <<build, raw, old_mapping, idx, calls, found, log, buf, base>>

NextParse == ParseStep

SpecParse == InitParse /\ [][NextParse]_vars

-----------------------------------------------------------------------------
(* the string scan on its own: one buffer *)

EdgeBytes == {31, 32, 126, 127, 128, 255}

\* every buffer of at most n bytes drawn from bytes
Buffers(bytes, n) == UNION {[1..k -> bytes] : k \in 0..n}

InitScan ==
    /\ pc = "scan_in"
    /\ build = "debug"
    /\ raw = <<>>
    /\ mapping = <<>>
    /\ old_mapping = <<>>
    /\ idx = 0
    /\ calls = <<>>
    /\ found = <<>>
    /\ log = <<>>
    /\ buf \in Buffers(MemBytes, MaxBuf) \cup Buffers(EdgeBytes, MaxEdgeBuf)
    /\ base \in {0, 16}

\* the scan of one buffer returned by read_mem_slice
ScanStep ==
    /\ pc = "scan_in"
    /\ found' = Tag(ExtractStrings(buf, base), 1)
    /\ pc' = "scanned"
    /\ UNCHANGED <<build, raw, mapping, old_mapping, idx, calls, log, buf, base>>

NextScan == ScanStep

SpecScan == InitScan /\ [][NextScan]_vars

-----------------------------------------------------------------------------
(* Properties *)

Range(s) == {s[i] : i \in 1..Len(s)}

Left == pc \in {"done", "panicked"}

MapsOrMemAccess == {"maps_read", "mem_seek", "mem_read"}

ReadFailures == {"open_err", "seek_err", "read_err"}

\* the calls of read_mem_slice made for region k
CallsFor(k) == {i \in 1..Len(calls) : calls[i].region = k}

\* the logged strings of region k, in order
FoundFor(k) == SelectSeq(found, LAMBDA f : f.region = k)

HasUsrPath(m) ==
    /\ Len(m.pathname) = 1
    /\ Len(m.pathname[1]) >= 4
    /\ m.pathname[1][1] = "/" /\ m.pathname[1][2] = "u"
    /\ m.pathname[1][3] = "s" /\ m.pathname[1][4] = "r"

\* region k is readable and not under /usr
Wanted(k) == old_mapping[k].r /\ ~HasUsrPath(old_mapping[k])

\* C1: once waitpid has reported Stopped, dump() is never left, by return
\* or by panic, without ptrace detach having been called.
C1_DetachOnEveryExit ==
    (Left /\ "waitpid:Stopped" \in Range(log)) => "detach" \in Range(log)

NonStopped ==
    \E st \in Statuses \ {"Stopped", "Err"} : ("waitpid:" \o st) \in Range(log)

C3_ReadIsolation ==
    /\ \A i \in 1..Len(calls) :
          /\ calls[i].result \in ReadFailures =>
                /\ FoundFor(calls[i].region) = <<>>
                /\ idx >= calls[i].region
          /\ calls[i].result = "ok" =>
                FoundFor(calls[i].region) =
                   Tag(ExtractStrings(calls[i].data, calls[i].start_addr),
                       calls[i].region)
    /\ \A i, j \in 1..Len(calls) : i < j => calls[i].region < calls[j].region
    /\ \A k \in 1..idx : Wanted(k) => CallsFor(k) # {}
    /\ (pc = "panicked" /\ idx < Len(old_mapping)) =>
          old_mapping[idx + 1].end < old_mapping[idx + 1].start
    /\ (pc \in {"detach", "done"} /\ "maps_read" \in Range(log)) =>
          idx = Len(old_mapping)
    /\ (pc = "done" /\ "maps_read" \in Range(log)) => log[Len(log)] = "detach"

\* C3 witness: dump() returned after a region whose read failed was
\* followed by a region that was read and yielded a string.
C3_Witness ==
    /\ pc = "done"
    /\ \E i, j \in 1..Len(calls) :
          /\ i < j
          /\ calls[i].result = "read_err"
          /\ calls[j].result = "ok"
          /\ FoundFor(calls[j].region) # <<>>

\* C4: read_mem_slice is never invoked for a region that is not readable
\* or whose path starts with /usr, and every readable region outside /usr
\* that the loop has passed was handed to it exactly once.
C4_RegionFiltering ==
    /\ \A i \in 1..Len(calls) : Wanted(calls[i].region)
    /\ \A k \in 1..Len(old_mapping) : Cardinality(CallsFor(k)) <= 1
    /\ \A k \in 1..idx : Wanted(k) => Cardinality(CallsFor(k)) = 1
    /\ pc \in {"detach", "done"} => idx = Len(old_mapping)

\* C4 witness: dump() returned with a readable /usr region that was not
\* read next to a region that was read.
C4_Witness ==
    /\ pc = "done"
    /\ \E k1, k2 \in 1..Len(old_mapping) :
          /\ old_mapping[k1].r /\ HasUsrPath(old_mapping[k1])
          /\ CallsFor(k1) = {}
          /\ Wanted(k2)
          /\ Cardinality(CallsFor(k2)) = 1

Printable(b) == b \in 32..126

\* the maximal runs of printable bytes of buf, as <<0-based offset, length>>
MaximalRuns ==
    { <<o, l>> \in (0..Len(buf)) \X (1..Len(buf)) :
         /\ o + l <= Len(buf)
         /\ \A j \in (o + 1)..(o + l) : Printable(buf[j])
         /\ o = 0 \/ ~Printable(buf[o])
         /\ o + l = Len(buf) \/ ~Printable(buf[o + l + 1]) }

\* C5: the strings logged for a buffer are exactly its maximal runs of
\* bytes in 32..126 of length at least 4, once each, in ascending order of
\* offset, with address base + offset and the run's bytes as text.
C5_MaximalRuns ==
    pc = "scanned" =>
       /\ \A i \in 1..Len(found) :
             /\ <<found[i].addr - base, Len(found[i].text)>> \in MaximalRuns
             /\ Len(found[i].text) >= 4
             /\ found[i].text =
                   SubSeq(buf, found[i].addr - base + 1,
                          found[i].addr - base + Len(found[i].text))
       /\ \A i, j \in 1..Len(found) : i < j => found[i].addr < found[j].addr
       /\ \A run \in MaximalRuns :
             run[2] >= 4 =>
                \E i \in 1..Len(found) :
                   found[i].addr = base + run[1] /\ Len(found[i].text) = run[2]

\* C5 witness: two runs were logged, the second ending at the end of the
\* buffer.
C5_Witness ==
    /\ pc = "scanned"
    /\ Len(found) = 2
    /\ found[2].addr - base + Len(found[2].text) = Len(buf)

\* the fields of the one line parsed in SpecParse
Fields == SplitTable(raw)[1]

Parsed == pc = "parsed"

HexChars ==
    {"0", "1", "2", "3", "4", "5", "6", "7", "8", "9",
     "a", "b", "c", "d", "e", "f", "A", "B", "C", "D", "E", "F"}

HexLower == <<"0", "1", "2", "3", "4", "5", "6", "7", "8", "9",
              "a", "b", "c", "d", "e", "f">>

HexUpper == <<"0", "1", "2", "3", "4", "5", "6", "7", "8", "9",
              "A", "B", "C", "D", "E", "F">>

HexDigitOf(c) == CHOOSE v \in 0..15 : c \in {HexLower[v + 1], HexUpper[v + 1]}

RECURSIVE HexValue(_)
HexValue(d) ==
    IF Len(d) = 0 THEN 0
    ELSE 16 * HexValue(SubSeq(d, 1, Len(d) - 1)) + HexDigitOf(d[Len(d)])

\* s is a hexadecimal number that fits usize, with an optional + sign
HexNumber(s) ==
    LET d == IF Len(s) > 1 /\ s[1] = "+" THEN Tail(s) ELSE s
    IN /\ Len(d) >= 1
       /\ \A i \in 1..Len(d) : d[i] \in HexChars
       /\ HexValue(d) < AddrModulus

\* a is start-end with both parts hexadecimal, split at the first '-'
WellFormedRange(a) ==
    \E k \in 1..Len(a) :
       /\ a[k] = "-"
       /\ \A j \in 1..(k - 1) : a[j] # "-"
       /\ HexNumber(SubSeq(a, 1, k - 1))
       /\ HexNumber(SubSeq(a, k + 1, Len(a)))

\* C6: for a 4-character permission string the flags are positional: r, w,
\* x from characters 1 to 3, private iff character 4 is 'p', shared iff it
\* is 's', never both, and one of them when character 4 is 'p' or 's'.
C6_PositionalFlags ==
    (Parsed /\ Len(Fields[2]) = 4) =>
       LET perms == Fields[2]
           m == mapping[1]
       IN /\ m.r = (perms[1] = "r")
          /\ m.w = (perms[2] = "w")
          /\ m.x = (perms[3] = "x")
          /\ m.p = (perms[4] = "p")
          /\ m.s = (perms[4] = "s")
          /\ ~(m.p /\ m.s)
          /\ perms[4] \in {"p", "s"} => (m.p \/ m.s)

\* C7 as stated: a line whose address range is well formed is parsed
\* without error and yields a region, whatever other fields are missing.
C7_OnlyRangeFails ==
    (pc # "parse" /\ Len(Fields) >= 1 /\ WellFormedRange(Fields[1])) =>
       Parsed /\ Len(mapping) = 1

\* the fields load_mapping needs: range, permissions, hexadecimal offset,
\* device and inode
NeededFields(f) ==
    /\ Len(f) >= 5
    /\ WellFormedRange(f[1])
    /\ HexNumber(f[3])

\* C7 amended: parsing a line fails when its address range is malformed,
\* and also when its permission, offset, device or inode field is missing
\* or its offset is not hexadecimal; otherwise it succeeds and yields one
\* region with the device and inode as given, and only the path may be
\* missing, which leaves the region's path absent.
C7_OnlyPathOptional ==
    pc # "parse" =>
       /\ Parsed <=> NeededFields(Fields)
       /\ Parsed =>
             /\ Len(mapping) = 1
             /\ mapping[1].device = Fields[4]
             /\ mapping[1].inode = Fields[5]
             /\ Len(Fields) = 5 => mapping[1].pathname = <<>>
             /\ Len(Fields) >= 6 => mapping[1].pathname = <<Fields[6]>>

\* C7 witness: a line without a path was parsed into a region without one.
C7_Witness ==
    /\ Parsed
    /\ Len(Fields) = 5
    /\ Len(mapping) = 1
    /\ mapping[1].pathname = <<>>

\* C8: no read is requested and no string logged for a region with
\* end <= start, the size handed to read_mem_slice is end - start and never
\* a wrapped value, and the scan never stops on an arithmetic fault.
C8_NoUnderflow ==
    /\ \A i \in 1..Len(calls) :
          /\ old_mapping[calls[i].region].end > old_mapping[calls[i].region].start
          /\ calls[i].num_elems =
                old_mapping[calls[i].region].end - old_mapping[calls[i].region].start
    /\ ~(pc = "panicked" /\ idx < Len(old_mapping))

\* C9 as stated: a permission string whose length is not 4 gives false for
\* all five flags and does not make parsing fail.
C9_WrongLengthAllFalse ==
    (pc # "parse" /\ NeededFields(Fields) /\ Len(Fields[2]) # 4) =>
       /\ Parsed
       /\ ~mapping[1].r /\ ~mapping[1].w /\ ~mapping[1].x
       /\ ~mapping[1].p /\ ~mapping[1].s

\* C9 amended: a permission string whose length is not 4 does not make
\* parsing fail and gives shared = false; r, w, x and private are false
\* for a position past the end of the string and positional otherwise.
C9_WrongLengthPositional ==
    (pc # "parse" /\ NeededFields(Fields) /\ Len(Fields[2]) # 4) =>
       LET perms == Fields[2]
           n == Len(perms)
       IN /\ Parsed
          /\ mapping[1].r = (n >= 1 /\ perms[1] = "r")
          /\ mapping[1].w = (n >= 2 /\ perms[2] = "w")
          /\ mapping[1].x = (n >= 3 /\ perms[3] = "x")
          /\ mapping[1].p = (n >= 4 /\ perms[4] = "p")
          /\ mapping[1].s = FALSE

\* C9 witness: a 5-character permission string was parsed with r and
\* private set.
C9_Witness ==
    /\ Parsed
    /\ Len(Fields[2]) = 5
    /\ mapping[1].r
    /\ mapping[1].p

\* C10: every read of the mapping table and every seek or read on the
\* memory file comes after attach and a waitpid that reported Stopped, and
\* before detach; after a failed attach nothing is read.
C10_ReadsInsideAttachedWindow ==
    /\ \A i \in 1..Len(log) :
          log[i] \in MapsOrMemAccess =>
             /\ \E j \in 1..(i - 1) : log[j] = "attach"
             /\ \E j \in 1..(i - 1) : log[j] = "waitpid:Stopped"
             /\ \A j \in 1..(i - 1) : log[j] # "detach"
    /\ (pc = "panicked" /\ log = <<"attach">>) =>
          (calls = <<>> /\ old_mapping = <<>>)

\* C10 witness: dump() returned after reading memory and then detaching.
C10_Witness ==
    /\ pc = "done"
    /\ "mem_read" \in Range(log)
    /\ log[Len(log)] = "detach"

====
